---- MODULE Spec2Model ----
(***************************************************************************)
(* Query runners of redash: JiraJQL (jql.py), MongoDB (mongodb.py),        *)
(* Uptycs (uptycs.py) and Url (url.py).                                    *)
(*                                                                         *)
(* Python values are records [kind, s, d, l]:                              *)
(*   kind = "str"  : the string s                                          *)
(*   kind = "int"  : the integer whose decimal text is s                   *)
(*   kind = "dict" : the ordered mapping d, a sequence of <<key, value>>   *)
(*   kind = "list" : the list l of values                                  *)
(* An (Ordered)dict is a sequence of <<key, value>> pairs with unique keys *)
(* in insertion order.                                                     *)
(***************************************************************************)
EXTENDS Integers, Sequences, FiniteSets, TLC

(* ------------------------------ bounds -------------------------------- *)

MaxList == 2

MaxFields == 2

MaxDocs == 2

MaxTotal == 5

MaxPage == 2

MaxGrow == 1

MaxCollections == 2

MaxStart == 2

(* ------------------------------ values -------------------------------- *)

None == "<None>"

Str(s) == [kind |-> "str", s |-> s, d |-> <<>>, l |-> <<>>]

Num(n) == [kind |-> "int", s |-> ToString(n), d |-> <<>>, l |-> <<>>]

Dict(d) == [kind |-> "dict", s |-> "", d |-> d, l |-> <<>>]

List(l) == [kind |-> "list", s |-> "", d |-> <<>>, l |-> l]

TYPE_STRING == "string"

TYPE_INTEGER == "integer"

Range(f) == {f[i] : i \in DOMAIN f}

DictKeys(d) == {d[i][1] : i \in DOMAIN d}

DictHas(d, k) == k \in DictKeys(d)

DictGet(d, k) == d[CHOOSE i \in DOMAIN d : d[i][1] = k][2]

DictSet(d, k, v) ==
    IF DictHas(d, k)
    THEN [i \in DOMAIN d |-> IF d[i][1] = k THEN <<k, v>> ELSE d[i]]
    ELSE Append(d, <<k, v>>)

RECURSIVE Join(_)
Join(strs) ==
    IF Len(strs) = 0 THEN ""
    ELSE IF Len(strs) = 1 THEN strs[1]
    ELSE strs[1] \o "," \o Join(Tail(strs))

(* --------------------------- FieldMapping ----------------------------- *)

(* A key of the query's fieldMapping is a sequence of tokens: maximal     *)
(* runs of word characters, and the separators between them.               *)
Separators == {".", " "}

IsWord(t) == t \notin Separators

RECURSIVE Concat(_)
Concat(tokens) ==
    IF Len(tokens) = 0 THEN "" ELSE tokens[1] \o Concat(Tail(tokens))

(* re.search("(\w+)\.(\w+)", field_name): the leftmost word.word           *)
member_parser(tokens) ==
    LET hits == {i \in 1..(Len(tokens) - 2) :
                    IsWord(tokens[i]) /\ tokens[i + 1] = "." /\ IsWord(tokens[i + 2])}
    IN  IF hits = {} THEN <<>>
        ELSE LET i == CHOOSE j \in hits : \A h \in hits : j <= h
             IN  <<tokens[i], tokens[i + 2]>>

FieldMapping(query_field_mapping) ==
    [i \in DOMAIN query_field_mapping |->
        LET k == query_field_mapping[i][1]
            v == query_field_mapping[i][2]
            m == member_parser(k)
        IN  IF m # <<>>
            THEN [field_name |-> m[1], member_name |-> m[2], output_field_name |-> v]
            ELSE [field_name |-> Concat(k), member_name |-> None, output_field_name |-> v]]

get_output_field_name(mapping, field_name) ==
    LET hits == {i \in DOMAIN mapping :
                    mapping[i].field_name = field_name /\ mapping[i].member_name = None}
    IN  IF hits = {} THEN field_name
        ELSE mapping[CHOOSE j \in hits : \A h \in hits : j <= h].output_field_name

get_dict_members(mapping, field_name) ==
    LET keep(item) == item.field_name = field_name /\ item.member_name # None
        picked == SelectSeq(mapping, keep)
    IN  [i \in DOMAIN picked |-> picked[i].member_name]

get_dict_output_field_name(mapping, field_name, member_name) ==
    LET hits == {i \in DOMAIN mapping :
                    mapping[i].field_name = field_name
                    /\ mapping[i].member_name = member_name}
    IN  IF hits = {} THEN None
        ELSE mapping[CHOOSE j \in hits : \A h \in hits : j <= h].output_field_name

(* ----------------------------- parse_issue ---------------------------- *)

(* jql.py 46-50: a dict field with declared members *)
RECURSIVE DictMembers(_, _, _, _, _)
DictMembers(result, mapping, k, v, member_names) ==
    IF Len(member_names) = 0 THEN result
    ELSE LET member_name == Head(member_names)
             r == IF DictHas(v.d, member_name)
                  THEN DictSet(result,
                               get_dict_output_field_name(mapping, k, member_name),
                               DictGet(v.d, member_name))
                  ELSE result
         IN  DictMembers(r, mapping, k, v, Tail(member_names))

(* the legacy rules with the watchCount rule ahead of the same-name rule *)
DictLegacyNameLast(result, output_name, k, v) ==
    LET r1 == IF DictHas(v.d, "key")
              THEN DictSet(result, output_name \o "_key", DictGet(v.d, "key"))
              ELSE result
        r2 == IF DictHas(v.d, "name")
              THEN DictSet(r1, output_name \o "_name", DictGet(v.d, "name"))
              ELSE r1
        r3 == IF DictHas(v.d, "watchCount")
              THEN DictSet(r2, output_name, DictGet(v.d, "watchCount"))
              ELSE r2
    IN  IF DictHas(v.d, k)
        THEN DictSet(r3, output_name, DictGet(v.d, k))
        ELSE r3

(* jql.py 53-63: the rules kept for backwards compatibility *)
DictLegacy(result, output_name, k, v) ==
    LET r1 == IF DictHas(v.d, "key")
              THEN DictSet(result, output_name \o "_key", DictGet(v.d, "key"))
              ELSE result
        r2 == IF DictHas(v.d, "name")
              THEN DictSet(r1, output_name \o "_name", DictGet(v.d, "name"))
              ELSE r1
        r3 == IF DictHas(v.d, k)
              THEN DictSet(r2, output_name, DictGet(v.d, k))
              ELSE r2
    IN  IF DictHas(v.d, "watchCount")
        THEN DictSet(r3, output_name, DictGet(v.d, "watchCount"))
        ELSE r3

(* jql.py 69-74: [listItem[member_name] for listItem in v if ...] *)
MemberListValues(v, member_name) ==
    LET keep(listItem) == listItem.kind = "dict" /\ DictHas(listItem.d, member_name)
        picked == SelectSeq(v.l, keep)
    IN  [i \in DOMAIN picked |-> DictGet(picked[i].d, member_name).s]

(* jql.py 79-81: [listItem for listItem in v if not isinstance(listItem, dict)] *)
ScalarListValues(v) ==
    LET keep(listItem) == listItem.kind # "dict"
        picked == SelectSeq(v.l, keep)
    IN  [i \in DOMAIN picked |-> picked[i].s]

(* jql.py 68-77: a list field with declared members *)
RECURSIVE ListMembers(_, _, _, _, _)
ListMembers(result, mapping, k, v, member_names) ==
    IF Len(member_names) = 0 THEN result
    ELSE LET member_name == Head(member_names)
             listValues == MemberListValues(v, member_name)
             r == IF Len(listValues) > 0
                  THEN DictSet(result,
                               get_dict_output_field_name(mapping, k, member_name),
                               Str(Join(listValues)))
                  ELSE result
         IN  ListMembers(r, mapping, k, v, Tail(member_names))

(* the dict branch with the legacy rules applied after the member rules *)
ParseDictBoth(result, mapping, k, v) ==
    DictLegacy(DictMembers(result, mapping, k, v, get_dict_members(mapping, k)),
               get_output_field_name(mapping, k), k, v)

(* jql.py 43-63 *)
ParseDict(result, mapping, k, v) ==
    LET output_name == get_output_field_name(mapping, k)
        member_names == get_dict_members(mapping, k)
    IN  IF Len(member_names) > 0
        THEN DictMembers(result, mapping, k, v, member_names)
        ELSE DictLegacy(result, output_name, k, v)

(* the list branch writing the scalar column also when no scalar entry exists *)
ParseListAlways(result, mapping, k, v) ==
    LET output_name == get_output_field_name(mapping, k)
        member_names == get_dict_members(mapping, k)
    IN  IF Len(member_names) > 0
        THEN ListMembers(result, mapping, k, v, member_names)
        ELSE DictSet(result, output_name, Str(Join(ScalarListValues(v))))

(* jql.py 65-82 *)
ParseList(result, mapping, k, v) ==
    LET output_name == get_output_field_name(mapping, k)
        member_names == get_dict_members(mapping, k)
    IN  IF Len(member_names) > 0
        THEN ListMembers(result, mapping, k, v, member_names)
        ELSE IF Len(ScalarListValues(v)) > 0
             THEN DictSet(result, output_name, Str(Join(ScalarListValues(v))))
             ELSE result

(* jql.py 39-85: the body of the loop over issue["fields"].items() *)
ParseField(result, mapping, k, v) ==
    IF v.kind = "dict" THEN ParseDict(result, mapping, k, v)
    ELSE IF v.kind = "list" THEN ParseList(result, mapping, k, v)
    ELSE DictSet(result, get_output_field_name(mapping, k), v)

RECURSIVE ParseFields(_, _, _)
ParseFields(result, mapping, fields) ==
    IF Len(fields) = 0 THEN result
    ELSE ParseFields(ParseField(result, mapping, fields[1][1], fields[1][2]),
                     mapping, Tail(fields))

(* jql.py 35-87 *)
parse_issue(issue, mapping) ==
    ParseFields(<< <<"key", Str(issue.key)>> >>, mapping, issue.fields)

(* ----------------------- mongodb.py: parse_results --------------------- *)

TYPE_FLOAT == "float"

TYPE_BOOLEAN == "boolean"

TYPE_DATETIME == "datetime"

(* mongodb.py 26-33, with the TYPE_STRING default of TYPES_MAP.get *)
TYPES_MAP(v) ==
    CASE v.kind = "str" -> TYPE_STRING
      [] v.kind = "int" -> TYPE_INTEGER
      [] v.kind = "float" -> TYPE_FLOAT
      [] v.kind = "bool" -> TYPE_BOOLEAN
      [] v.kind = "datetime" -> TYPE_DATETIME
      [] OTHER -> TYPE_STRING

Column(name, type) == [name |-> name, friendly_name |-> name, type |-> type]

ColumnNames(columns) == {columns[i].name : i \in DOMAIN columns}

(* mongodb.py 74-77; None is modelled by the caller testing HasColumn *)
HasColumn(columns, column_name) == column_name \in ColumnNames(columns)

_get_column_by_name(columns, column_name) ==
    columns[CHOOSE i \in DOMAIN columns :
                /\ columns[i].name = column_name
                /\ \A j \in DOMAIN columns : columns[j].name = column_name => i <= j]

(* the column added for every value, without the lookup of an existing one *)
AddColumnAlways(columns, column_name, v) ==
    Append(columns, Column(column_name, TYPES_MAP(v)))

AddColumn(columns, column_name, v) ==
    IF HasColumn(columns, column_name) THEN columns
    ELSE Append(columns, Column(column_name, TYPES_MAP(v)))

(* mongodb.py 89-102: the inner keys of a nested mapping *)
RECURSIVE ParseInner(_, _, _)
ParseInner(acc, key, inner) ==
    IF Len(inner) = 0 THEN acc
    ELSE LET column_name == key \o "." \o inner[1][1]
         IN  ParseInner([columns |-> AddColumn(acc.columns, column_name, inner[1][2]),
                         parsed_row |-> DictSet(acc.parsed_row, column_name, inner[1][2])],
                        key, Tail(inner))

(* mongodb.py 87-114: the keys of one row *)
RECURSIVE ParseKeys(_, _)
ParseKeys(acc, row) ==
    IF Len(row) = 0 THEN acc
    ELSE LET key == row[1][1]
             v == row[1][2]
         IN  IF v.kind = "dict"
             THEN ParseKeys(ParseInner(acc, key, v.d), Tail(row))
             ELSE ParseKeys([columns |-> AddColumn(acc.columns, key, v),
                             parsed_row |-> DictSet(acc.parsed_row, key, v)],
                            Tail(row))

(* mongodb.py 84-116: one iteration of the loop over results *)
ParseRow(state, row) ==
    LET acc == ParseKeys([columns |-> state.columns, parsed_row |-> <<>>], row)
    IN  [rows |-> Append(state.rows, acc.parsed_row), columns |-> acc.columns]

RECURSIVE ParseRows(_, _)
ParseRows(state, results) ==
    IF Len(results) = 0 THEN state
    ELSE ParseRows(ParseRow(state, results[1]), Tail(results))

(* mongodb.py 80-118 *)
parse_results(results) == ParseRows([rows |-> <<>>, columns |-> <<>>], results)

(* ------------------------------ state ---------------------------------- *)

VARIABLES
    issue,          \* parse_issue: the issue being parsed
    field_mapping,  \* parse_issue / JiraJQL.run_query: the FieldMapping in use
    result,         \* parse_issue: the OrderedDict built so far
    fieldIdx,       \* parse_issue: position of the loop over issue["fields"]
    records,        \* parse_results: the records handed in
    rows,           \* parse_results: the rows built so far
    columns,        \* parse_results: the columns built so far
    rowIdx,         \* parse_results: position of the loop over results
    pc,             \* run_query: "idle", "waiting" (a request is outstanding), "done"
    runner,         \* run_query: the query runner executing
    input,          \* run_query: the query as the caller passed it
    query,          \* run_query: the runner's working copy of the query
    query_type,     \* JiraJQL.run_query: query.pop("queryType", "select")
    backend,        \* the backend the runner talks to
    requests,       \* the backend requests issued by this call, in order
    responses,      \* the backend responses received by this call, in order
    results,        \* JiraJQL.run_query: the running ResultSet
    index,          \* JiraJQL.run_query: the next offset
    ret,            \* run_query: what the call returned
    db,             \* get_schema: the collections of the database, in listing order
    schema,         \* get_schema: the schema dict built so far
    collIdx,        \* get_schema: position of the loop over db.collection_names()
    schemaCalls,    \* get_schema: the backend calls made so far, in order
    schemaRaised    \* get_schema: the exception that left get_schema, if any

parseVars == <<issue, result, fieldIdx>>

normVars == <<records, rows, columns, rowIdx>>

schemaVars == <<db, schema, collIdx, schemaCalls, schemaRaised>>

runVars == <<pc, runner, input, query, query_type, backend, requests, responses,
             results, index, ret>>

vars == <<issue, field_mapping, result, fieldIdx, records, rows, columns, rowIdx,
          pc, runner, input, query, query_type, backend, requests, responses,
          results, index, ret, db, schema, collIdx, schemaCalls, schemaRaised>>

NoValue == "-"

(* no query, no backend: the value of a record-valued variable between calls *)
NoRecord == [keys |-> {}]

NoReturn == [kind |-> "none", payload |-> [null |-> TRUE, json |-> "", columns |-> <<>>, rows |-> <<>>],
             error |-> None]

ParseAtRest ==
    /\ issue = [key |-> NoValue, fields |-> <<>>]
    /\ result = <<>>
    /\ fieldIdx = 0

NormAtRest ==
    /\ records = <<>>
    /\ rows = <<>>
    /\ columns = <<>>
    /\ rowIdx = 0

SchemaAtRest ==
    /\ db = <<>>
    /\ schema = <<>>
    /\ collIdx = 0
    /\ schemaCalls = <<>>
    /\ schemaRaised = NoValue

RunAtRest ==
    /\ pc = "idle"
    /\ runner = NoValue
    /\ input = NoRecord
    /\ query = NoRecord
    /\ query_type = NoValue
    /\ backend = NoRecord
    /\ requests = <<>>
    /\ responses = <<>>
    /\ results = [columns |-> <<>>, rows |-> <<>>]
    /\ index = 0
    /\ ret = NoReturn

(* ------------------- parse_issue, one field per step ------------------- *)

(* the members a nested object of the inputs may carry *)
DictMemberValues ==
    << <<"key", Str("bob1")>>, <<"name", Str("Bob")>>,
       <<"assignee", Str("self")>>, <<"watchCount", Str("5")>> >>

SubSeqBy(seq, S) == LET keep(e) == e[1] \in S IN SelectSeq(seq, keep)

DictValues == {Dict(SubSeqBy(DictMemberValues, S)) : S \in SUBSET DictKeys(DictMemberValues)}

ListItems ==
    {Str("bug"),
     Dict(<< <<"name", Str("n1")>> >>),
     Dict(<< <<"name", Str("n2")>>, <<"key", Str("k2")>> >>)}

ListValues == {List(l) : l \in UNION {[1..n -> ListItems] : n \in 0..MaxList}}

FieldNames == {"assignee", "labels", "summary"}

ValuesOfField(name) ==
    IF name = "assignee" THEN DictValues
    ELSE IF name = "labels" THEN ListValues
    ELSE {Str("text")}

(* the orders in which an issue may carry up to MaxFields different fields *)
FieldOrders ==
    {names \in UNION {[1..n -> FieldNames] : n \in 1..MaxFields} :
        \A i, j \in DOMAIN names : i # j => names[i] # names[j]}

IssuesOf(names) ==
    {[key |-> "K1", fields |-> [i \in DOMAIN names |-> <<names[i], v[i]>>]] :
        v \in {w \in [DOMAIN names -> UNION {ValuesOfField(n) : n \in FieldNames}] :
                  \A i \in DOMAIN names : w[i] \in ValuesOfField(names[i])}}

Issues == UNION {IssuesOf(names) : names \in FieldOrders}

Dot(a, b) == <<a, ".", b>>

QueryFieldMappings ==
    { <<>>,
      << <<Dot("assignee", "name"), "assignee_name">> >>,
      << <<(<<"assignee">>), "owner">> >>,
      << <<Dot("assignee", "name"), "an">>, <<Dot("assignee", "key"), "ak">>,
         <<Dot("labels", "name"), "label_names">> >>,
      << <<(<<"labels">>), "tags">>, <<(<<"summary">>), "title">> >>,
      << <<Dot("labels", "name"), "ln">>, <<Dot("labels", "key"), "lk">> >> }

InitParse ==
    /\ issue \in Issues
    /\ field_mapping \in {FieldMapping(m) : m \in QueryFieldMappings}
    /\ result = << <<"key", Str(issue.key)>> >>
    /\ fieldIdx = 1
    /\ NormAtRest
    /\ RunAtRest
    /\ SchemaAtRest

(* jql.py 39-85: one iteration of the loop *)
ParseIssueField ==
    /\ fieldIdx >= 1
    /\ fieldIdx <= Len(issue.fields)
    /\ result' = ParseField(result, field_mapping,
                            issue.fields[fieldIdx][1], issue.fields[fieldIdx][2])
    /\ fieldIdx' = fieldIdx + 1
    /\ UNCHANGED <<issue, field_mapping, normVars, runVars, schemaVars>>

NextParse == ParseIssueField

SpecParse == InitParse /\ [][NextParse]_vars

(* ------------------ parse_results, one record per step ----------------- *)

(* the documents a collection of the inputs may hold *)
Documents ==
    { << <<"a", Num(1)>> >>,
      << <<"a", Num(2)>>, <<"b", Dict(<< <<"c", Num(3)>> >>)>> >>,
      << <<"_id", Str("o1")>>, <<"a", Str("x")>> >>,
      << <<"_id", Str("o2")>>,
         <<"b", Dict(<< <<"c", Str("y")>>, <<"d", Dict(<< <<"e", Num(1)>> >>)>> >>)>> >>,
      << <<"_id", Str("o3")>>, <<"b", Dict(<<>>)>> >>,
      << <<"b", Str("flat")>>, <<"a", Num(7)>> >> }

RecordSets == UNION {[1..n -> Documents] : n \in 0..MaxDocs}

InitNormalize ==
    /\ records \in RecordSets
    /\ rows = <<>>
    /\ columns = <<>>
    /\ rowIdx = 1
    /\ field_mapping = <<>>
    /\ ParseAtRest
    /\ RunAtRest
    /\ SchemaAtRest

(* mongodb.py 84-116: one iteration of the loop *)
ParseResultsRow ==
    /\ rowIdx >= 1
    /\ rowIdx <= Len(records)
    /\ LET next == ParseRow([rows |-> rows, columns |-> columns], records[rowIdx])
       IN  /\ rows' = next.rows
           /\ columns' = next.columns
    /\ rowIdx' = rowIdx + 1
    /\ UNCHANGED <<records, field_mapping, parseVars, runVars, schemaVars>>

NextNormalize == ParseResultsRow

SpecNormalize == InitNormalize /\ [][NextNormalize]_vars

(* ------------------------- the result protocol ------------------------- *)

NullPayload == [null |-> TRUE, json |-> "null", columns |-> <<>>, rows |-> <<>>]

(* json_dumps of a {"columns": ..., "rows": ...} object *)
Payload(cols, rws) == [null |-> FALSE, json |-> "object", columns |-> cols, rows |-> rws]

(* a payload that is text: json_dumps({}) or the bytes of an HTTP body *)
TextPayload(text) == [null |-> FALSE, json |-> text, columns |-> <<>>, rows |-> <<>>]

Return(payload, error) == [kind |-> "return", payload |-> payload, error |-> error]

(* the call ends by an exception that run_query does not catch *)
Raise(exception) == [kind |-> "raise", payload |-> NullPayload, error |-> exception]

(* get_response of BaseHTTPQueryRunner answers (response, None) or (None, error) *)
Errors == {"JIRA returned unexpected status code (500)", "Connection refused"}

(* ------------------------- jql.py: ResultSet --------------------------- *)

(* jql.py 20-26 *)
add_column(cols, column) ==
    IF HasColumn(cols, column) THEN cols ELSE Append(cols, Column(column, TYPE_STRING))

RECURSIVE AddColumns(_, _)
AddColumns(cols, row) ==
    IF Len(row) = 0 THEN cols ELSE AddColumns(add_column(cols, row[1][1]), Tail(row))

(* jql.py 14-18 *)
add_row(rs, row) == [columns |-> AddColumns(rs.columns, row), rows |-> Append(rs.rows, row)]

(* jql.py 31-32 *)
merge(self, set) == [columns |-> self.columns, rows |-> self.rows \o set.rows]

(* jql.py 28-29 *)
to_json(rs) == Payload(rs.columns, rs.rows)

EmptyResultSet == [columns |-> <<>>, rows |-> <<>>]

RECURSIVE AddIssues(_, _, _)
AddIssues(rs, issues, mapping) ==
    IF Len(issues) = 0 THEN rs
    ELSE AddIssues(add_row(rs, parse_issue(issues[1], mapping)), Tail(issues), mapping)

(* jql.py 90-96 *)
parse_issues(data, mapping) == AddIssues(EmptyResultSet, data.issues, mapping)

(* jql.py 99-102 *)
parse_count(data) == add_row(EmptyResultSet, << <<"count", Num(data.total)>> >>)

(* ----------------------- jql.py: JiraJQL.run_query --------------------- *)

DefaultMaxResults == 1000

(* a query is the set of keys it carries and their values; a key it does not
   carry holds the rest value of its type *)
JiraQuery(keys, qt, fm, sa, mr) ==
    [keys |-> keys \cup {"jql"},
     jql |-> "project = X",
     queryType |-> IF "queryType" \in keys THEN qt ELSE "",
     fieldMapping |-> IF "fieldMapping" \in keys THEN fm ELSE <<>>,
     startAt |-> IF "startAt" \in keys THEN sa ELSE 0,
     maxResults |-> IF "maxResults" \in keys THEN mr ELSE 0,
     fields |-> IF "fields" \in keys THEN "summary" ELSE ""]

JiraFieldMappings ==
    { <<>>, << <<Dot("assignee", "name"), "assignee_name">> >> }

JiraQueries ==
    {JiraQuery(keys, qt, fm, sa, mr) :
        keys \in SUBSET {"queryType", "fieldMapping", "startAt", "maxResults", "fields"},
        qt \in {"select", "count"}, fm \in JiraFieldMappings,
        sa \in 0..MaxStart, mr \in 1..MaxPage}

(* the two shapes of the issues the backend holds *)
PlainFields == << <<"summary", Str("text")>> >>

AssignedFields ==
    << <<"summary", Str("text")>>,
       <<"assignee", Dict(<< <<"key", Str("bob1")>>, <<"name", Str("Bob")>> >>)>> >>

IssueKey(i) == "K" \o ToString(i)

(* a backend holding a list of issues and serving pages of at most cap; its
   first plain issues are unassigned, the others assigned. fault "none": it
   answers as the API documents; "zero": its pages report maxResults = 0 and
   carry no issue; "growing": one more issue is created after each of its next
   grows answers. answered is the number of requests it has answered, modulo 2 *)
JiraBackend(c, t, plain, fault, grows) ==
    [cap |-> c,
     issues |-> [i \in 1..t |-> [key |-> IssueKey(i),
                                 fields |-> IF i <= plain THEN PlainFields
                                            ELSE AssignedFields]],
     fault |-> fault,
     grows |-> grows,
     answered |-> 0]

JiraBackends ==
    {JiraBackend(c, t, plain, "none", 0) :
        c \in 1..MaxPage, t \in 0..MaxTotal, plain \in 0..MaxTotal}

FaultyBackends ==
    {JiraBackend(c, t, t, fault, 0) :
        c \in 1..MaxPage, t \in 0..MaxTotal, fault \in {"none", "zero"}}
    \cup {JiraBackend(c, t, t, "growing", g) :
            c \in 1..MaxPage, t \in 0..MaxTotal, g \in 1..MaxGrow}

(* the backend after it has answered a request *)
AfterAnswer(b) ==
    IF b.fault = "growing" /\ b.grows > 0
    THEN [b EXCEPT !.issues = Append(@, [key |-> IssueKey(Len(@) + 1), fields |-> PlainFields]),
                   !.grows = @ - 1,
                   !.answered = (@ + 1) % 2]
    ELSE [b EXCEPT !.answered = (@ + 1) % 2]

Min(a, b) == IF a <= b THEN a ELSE b

(* the fields of an issue the request asks for: all of them without a fields
   parameter, else the named ones *)
Requested(iss, params) ==
    LET named(e) == e[1] = params.fields
    IN  IF "fields" \in params.keys
        THEN [iss EXCEPT !.fields = SelectSeq(@, named)]
        ELSE iss

(* the page the backend serves for a request: it echoes the requested startAt,
   reports its page size as maxResults and the number of issues it holds as total *)
JiraPage(b, params) ==
    LET startAt == IF "startAt" \in params.keys THEN params.startAt ELSE 0
        size == IF b.fault = "zero" THEN 0 ELSE Min(params.maxResults, b.cap)
        page == SubSeq(b.issues, startAt + 1, Min(startAt + size, Len(b.issues)))
    IN  [startAt |-> startAt, maxResults |-> size, total |-> Len(b.issues),
         issues |-> [i \in DOMAIN page |-> Requested(page[i], params)]]

NoData == [startAt |-> 0, maxResults |-> 0, total |-> 0, issues |-> <<>>]

(* self.get_response(jql_url, params=query): an error, or the page *)
JiraResponses(b, params) ==
    {[error |-> e, data |-> NoData] : e \in Errors}
    \cup {[error |-> None, data |-> JiraPage(b, params)]}

(* what the log of responses keeps of a response *)
Received(r) ==
    [error |-> r.error, startAt |-> r.data.startAt, maxResults |-> r.data.maxResults,
     total |-> r.data.total, count |-> Len(r.data.issues)]

(* the pops with fieldMapping left in the query *)
PopQueryTypeOnly(q) == [q EXCEPT !.keys = @ \ {"queryType"}, !.queryType = ""]

(* jql.py 173-174: query.pop("queryType", "select"), query.pop("fieldMapping", {}) *)
PopControlKeys(q) ==
    [q EXCEPT !.keys = @ \ {"queryType", "fieldMapping"},
              !.queryType = "", !.fieldMapping = <<>>]

(* the limits with a count query keeping the maxResults and fields it came with *)
SetLimitsKeepCaller(q, qt) ==
    IF qt = "count"
    THEN [q EXCEPT !.keys = @ \cup {"maxResults", "fields"},
                   !.maxResults = IF "maxResults" \in q.keys THEN q.maxResults ELSE 1]
    ELSE [q EXCEPT !.keys = @ \cup {"maxResults"},
                   !.maxResults = IF "maxResults" \in q.keys THEN q.maxResults
                                  ELSE DefaultMaxResults]

(* jql.py 176-180 *)
SetLimits(q, qt) ==
    IF qt = "count"
    THEN [q EXCEPT !.keys = @ \cup {"maxResults", "fields"}, !.maxResults = 1, !.fields = ""]
    ELSE [q EXCEPT !.keys = @ \cup {"maxResults"},
                   !.maxResults = IF "maxResults" \in q.keys THEN q.maxResults
                                  ELSE DefaultMaxResults]

(* the logs keep the first MaxLog requests and responses of a call *)
MaxLog == MaxTotal + MaxGrow + 2

Log(log, entry) == IF Len(log) < MaxLog THEN Append(log, entry) ELSE log

(* jql.py 183-184, 197-198 with the rows merged so far handed back too *)
OnErrorPartial(rs, error) == Return(to_json(rs), error)

(* jql.py 183-184, 197-198: return None, error *)
OnError(rs, error) == Return(NullPayload, error)

(* the loop test with the offset compared by >= *)
MorePagesInclusive(data, idx) == data.total >= idx

(* jql.py 194: while data["total"] > index *)
MorePages(data, idx) == data.total > idx

(* jql.py 192, 201 *)
NextIndex(data) == data.startAt + data.maxResults

(* the next offset computed from the query's own startAt and maxResults *)
SetStartAtFromQuery(q, idx) ==
    [q EXCEPT !.keys = @ \cup {"startAt"},
              !.startAt = (IF "startAt" \in q.keys THEN q.startAt ELSE 0) + q.maxResults]

(* jql.py 195 *)
SetStartAt(q, idx) == [q EXCEPT !.keys = @ \cup {"startAt"}, !.startAt = idx]

(* jql.py 169-182: up to the first get_response, on a backend of the given set *)
JiraStart(backends) ==
    /\ pc = "idle"
    /\ \E q \in JiraQueries, b \in backends :
          LET qt == IF "queryType" \in q.keys THEN q.queryType ELSE "select"
              fm == FieldMapping(q.fieldMapping)
              params == SetLimits(PopControlKeys(q), qt)
          IN  /\ runner' = "JiraJQL"
              /\ input' = q
              /\ backend' = b
              /\ query_type' = qt
              /\ field_mapping' = fm
              /\ query' = params
              /\ requests' = <<params>>
    /\ pc' = "waiting"
    /\ responses' = <<>>
    /\ UNCHANGED <<results, index, ret, parseVars, normVars, schemaVars>>

JiraRunQuery == JiraStart(JiraBackends)

JiraRunQueryFaulty == JiraStart(FaultyBackends)

(* jql.py 194-196 and 206: the loop test after a page, then the next request or the return *)
JiraAfterPage(rs, data, idx) ==
    /\ results' = rs
    /\ index' = idx
    /\ IF MorePages(data, idx)
       THEN /\ query' = SetStartAt(query, idx)
            /\ requests' = Log(requests, SetStartAt(query, idx))
            /\ pc' = "waiting"
            /\ ret' = ret
       ELSE /\ ret' = Return(to_json(rs), None)
            /\ pc' = "done"
            /\ UNCHANGED <<query, requests>>

(* jql.py 182-192: the response to the first request *)
JiraFirstPage ==
    /\ pc = "waiting"
    /\ runner = "JiraJQL"
    /\ Len(responses) = 0
    /\ \E r \in JiraResponses(backend, query) :
          /\ responses' = Log(responses, Received(r))
          /\ backend' = AfterAnswer(backend)
          /\ IF r.error # None
             THEN /\ ret' = OnError(results, r.error)
                  /\ pc' = "done"
                  /\ UNCHANGED <<query, requests, results, index>>
             ELSE IF query_type = "count"
             THEN /\ results' = parse_count(r.data)
                  /\ ret' = Return(to_json(parse_count(r.data)), None)
                  /\ pc' = "done"
                  /\ UNCHANGED <<query, requests, index>>
             ELSE JiraAfterPage(parse_issues(r.data, field_mapping), r.data, NextIndex(r.data))
    /\ UNCHANGED <<runner, input, query_type, field_mapping, parseVars, normVars, schemaVars>>

(* jql.py 196-204: the response to a request of the loop *)
JiraNextPage ==
    /\ pc = "waiting"
    /\ runner = "JiraJQL"
    /\ Len(responses) > 0
    /\ \E r \in JiraResponses(backend, query) :
          /\ responses' = Log(responses, Received(r))
          /\ backend' = AfterAnswer(backend)
          /\ IF r.error # None
             THEN /\ ret' = OnError(results, r.error)
                  /\ pc' = "done"
                  /\ UNCHANGED <<query, requests, results, index>>
             ELSE JiraAfterPage(merge(results, parse_issues(r.data, field_mapping)),
                                r.data, NextIndex(r.data))
    /\ UNCHANGED <<runner, input, query_type, field_mapping, parseVars, normVars, schemaVars>>

(* --------------------- uptycs.py: Uptycs.run_query --------------------- *)

(* the bodies the Uptycs API may answer with: any of the keys columns, items, error *)
UptycsBodies ==
    {[keys |-> ks,
      columns |-> IF "columns" \in ks THEN <<"c1", "c2">> ELSE <<>>,
      items |-> IF "items" \in ks
                THEN << << <<"c1", Str("v1")>>, <<"c2", Str("v2")>> >> >>
                ELSE <<>>,
      brief |-> IF "error" \in ks THEN "Query failed" ELSE "",
      detail |-> IF "error" \in ks THEN "syntax error" ELSE ""] :
        ks \in SUBSET {"columns", "items", "error"}}

NoBody == [keys |-> {}, columns |-> <<>>, items |-> <<>>, brief |-> "", detail |-> ""]

UptycsResponses ==
    {[status_code |-> 200, content |-> body] : body \in UptycsBodies}
    \cup {[status_code |-> c, content |-> NoBody] : c \in {401, 500}}

(* uptycs.py 43-53 *)
transformed_to_redash_json(data) ==
    Payload(IF "columns" \in data.keys
            THEN [i \in DOMAIN data.columns |-> Column(data.columns[i], "string")]
            ELSE <<>>,
            IF "items" \in data.keys THEN data.items ELSE <<>>)

(* uptycs.py 74-88; json_data is given as json_dumps (uptycs.py 92) renders it *)
api_call(response) ==
    IF response.status_code = 200
    THEN [json_data |-> transformed_to_redash_json(response.content),
          error |-> IF "error" \in response.content.keys
                    THEN response.content.brief \o "\n" \o response.content.detail
                    ELSE None]
    ELSE [json_data |-> TextPayload("{}"),
          error |-> "status_code " \o ToString(response.status_code) \o "\n"
                    \o "failed to connect"]

(* uptycs.py 90-94 *)
UptycsRunQuery ==
    /\ pc = "idle"
    /\ \E response \in UptycsResponses :
          /\ responses' = <<response>>
          /\ ret' = Return(api_call(response).json_data, api_call(response).error)
    /\ runner' = "Uptycs"
    /\ input' = "SELECT 1"
    /\ query' = "SELECT 1"
    /\ requests' = <<[query |-> "SELECT 1"]>>
    /\ pc' = "done"
    /\ UNCHANGED <<query_type, backend, results, index, field_mapping, parseVars, normVars, schemaVars>>

(* -------------------------- url.py: Url.run_query ---------------------- *)

(* a string is the sequence of its tokens; " " is whitespace *)
RECURSIVE LStrip(_)
LStrip(tokens) ==
    IF Len(tokens) > 0 /\ tokens[1] = " " THEN LStrip(Tail(tokens)) ELSE tokens

RECURSIVE RStrip(_)
RStrip(tokens) ==
    IF Len(tokens) > 0 /\ tokens[Len(tokens)] = " "
    THEN RStrip(SubSeq(tokens, 1, Len(tokens) - 1))
    ELSE tokens

(* str.strip *)
Strip(tokens) == RStrip(LStrip(tokens))

(* query.find("://") > -1 *)
HasScheme(tokens) == \E i \in DOMAIN tokens : tokens[i] = "://"

(* self.configuration.get("url", None) *)
UrlConfigurations ==
    {[keys |-> {}, url |-> <<>>],
     [keys |-> {"url"}, url |-> <<>>],
     [keys |-> {"url"}, url |-> <<"http", "://", "host">>]}

UrlQueries ==
    {<<"/data">>, <<" ", "/data", " ">>, <<"http", "://", "other", "/data">>}

UrlContents == {<<>>, <<" ">>, <<"[1]">>, <<" ", "[1]", " ">>}

UrlResponses ==
    {[error |-> e, content |-> <<>>] : e \in Errors}
    \cup {[error |-> None, content |-> c] : c \in UrlContents}

(* url.py 12-32 *)
UrlResult(configuration, text, response) ==
    LET base_is_none == "url" \notin configuration.keys
        base_url == configuration.url
        q == Strip(text)
        url == base_url \o q
    IN  IF ~base_is_none /\ base_url # <<>> /\ HasScheme(q)
        THEN [sent |-> FALSE,
              ret |-> Return(NullPayload,
                             "Accepting only relative URLs to '" \o Concat(base_url) \o "'")]
        ELSE IF response.error # None
        THEN [sent |-> TRUE, ret |-> Return(NullPayload, response.error)]
        ELSE IF Strip(response.content) # <<>>
        THEN [sent |-> TRUE,
              ret |-> Return(TextPayload(Concat(Strip(response.content))), None)]
        ELSE [sent |-> TRUE,
              ret |-> Return(NullPayload, "Got empty response from '" \o Concat(url) \o "'.")]

UrlRunQuery ==
    /\ pc = "idle"
    /\ \E configuration \in UrlConfigurations, text \in UrlQueries, response \in UrlResponses :
          LET out == UrlResult(configuration, text, response)
          IN  /\ backend' = configuration
              /\ input' = text
              /\ query' = Strip(text)
              /\ requests' = IF out.sent THEN <<configuration.url \o Strip(text)>> ELSE <<>>
              /\ responses' = IF out.sent THEN <<response>> ELSE <<>>
              /\ ret' = out.ret
    /\ runner' = "Url"
    /\ pc' = "done"
    /\ UNCHANGED <<query_type, results, index, field_mapping, parseVars, normVars, schemaVars>>

(* --------------------- mongodb.py: MongoDB.run_query ------------------- *)

(* the query text: not JSON at all ("invalid"), JSON whose $oids marker wraps a
   non-array ("oids"), a JSON number or null ("scalar"), or a JSON object with
   the keys it carries ("json") *)
MongoQuery(text, keys, filter, pipeline, projection, sortColumns) ==
    [text |-> text,
     keys |-> keys,
     collection |-> IF "collection" \in keys THEN "events" ELSE "",
     query |-> IF "query" \in keys THEN filter ELSE <<>>,
     aggregate |-> IF "aggregate" \in keys THEN pipeline ELSE <<>>,
     fields |-> IF "fields" \in keys THEN projection ELSE <<>>,
     sortColumns |-> IF "sortColumns" \in keys THEN sortColumns ELSE "",
     skip |-> IF "skip" \in keys THEN 1 ELSE 0,
     limit |-> IF "limit" \in keys THEN 1 ELSE 0]

MongoFilters == {<<>>, << <<"a", Num(1)>> >>}

MongoPipelines == {<<>>, <<"$match">>}

(* "fields": field name -> priority *)
MongoProjections ==
    {<<>>, << <<"b", 2>>, <<"a", 1>> >>, << <<"b.c", 1>>, <<"a", 1>> >>}

MongoQueries ==
    {MongoQuery("json", keys \cup {"collection"}, f, p, pr, sc) :
        keys \in SUBSET {"query", "aggregate", "fields", "count", "sortColumns", "skip", "limit"},
        f \in MongoFilters, p \in MongoPipelines, pr \in MongoProjections,
        sc \in {"asc", "desc"}}
    \cup {MongoQuery(text, keys, <<>>, <<>>, <<>>, "") :
            text \in {"json", "invalid", "oids"}, keys \in {{}, {"count"}}}
    \cup {MongoQuery("scalar", {}, <<>>, <<>>, <<>>, "")}
    \cup {MongoQuery(text, {"collection"}, <<>>, <<>>, <<>>, "") : text \in {"invalid", "oids"}}

(* Python truth of a dict or list value *)
Truthy(v) == Len(v) > 0

(* what find(q, f) keeps of a document: everything without a projection, _id
   alone for an empty one, else _id, the named fields and the named members *)
ProjectDocument(doc, q) ==
    IF "fields" \notin q.keys THEN doc
    ELSE LET names == DictKeys(q.fields)
             kept(e) ==
                 IF e[1] = "_id" \/ e[1] \in names THEN e
                 ELSE IF e[2].kind = "dict"
                 THEN LET named(ie) == (e[1] \o "." \o ie[1]) \in names
                      IN  IF SelectSeq(e[2].d, named) = <<>> THEN <<NoValue, e[2]>>
                          ELSE <<e[1], Dict(SelectSeq(e[2].d, named))>>
                 ELSE <<NoValue, e[2]>>
             mapped == [i \in DOMAIN doc |-> kept(doc[i])]
             present(e) == e[1] # NoValue
         IN  SelectSeq(mapped, present)

(* mongodb.py 294-299: find(q, f), then skip and limit *)
FindCursor(docs, q) ==
    LET projected == [i \in DOMAIN docs |-> ProjectDocument(docs[i], q)]
        skipped == IF "skip" \in q.keys
                   THEN SubSeq(projected, q.skip + 1, Len(projected))
                   ELSE projected
    IN  IF "limit" \in q.keys /\ q.limit > 0
        THEN SubSeq(skipped, 1, Min(q.limit, Len(skipped)))
        ELSE skipped

(* sorted(f, key=f.get): the field names by priority, ties in insertion order *)
RECURSIVE SortedByPriority(_)
SortedByPriority(f) ==
    IF Len(f) = 0 THEN <<>>
    ELSE LET rest == SortedByPriority(SubSeq(f, 1, Len(f) - 1))
             last == f[Len(f)]
             before(e) == e[2] <= last[2]
             after(e) == e[2] > last[2]
         IN  SelectSeq(rest, before) \o <<last>> \o SelectSeq(rest, after)

(* mongodb.py 323-329 *)
OrderByFields(cols, f) ==
    LET names == [i \in DOMAIN f |-> SortedByPriority(f)[i][1]]
        found(k) == HasColumn(cols, k)
        picked == SelectSeq(names, found)
    IN  [i \in DOMAIN picked |-> _get_column_by_name(cols, picked[i])]

(* the column names of the inputs in the order of Python's string comparison *)
Alphabet == <<"_id", "a", "b", "b.c", "b.d", "count">>

Rank(name) == CHOOSE i \in DOMAIN Alphabet : Alphabet[i] = name

(* sorted(columns, key=lambda col: col["name"], reverse=reverse) *)
RECURSIVE SortedByName(_, _)
SortedByName(cols, reverse) ==
    IF Len(cols) = 0 THEN <<>>
    ELSE LET rest == SortedByName(SubSeq(cols, 1, Len(cols) - 1), reverse)
             last == cols[Len(cols)]
             before(c) == IF reverse THEN Rank(c.name) >= Rank(last.name)
                          ELSE Rank(c.name) <= Rank(last.name)
             after(c) == ~before(c)
         IN  SelectSeq(rest, before) \o <<last>> \o SelectSeq(rest, after)

(* mongodb.py 323-333: the two orderings of the columns *)
OrderColumns(cols, q) ==
    LET byFields == IF Truthy(q.fields) THEN OrderByFields(cols, q.fields) ELSE cols
    IN  IF q.sortColumns # ""
        THEN SortedByName(byFields, q.sortColumns = "desc")
        ELSE byFields

(* json_dumps(data, cls=MongoDBJSONEncoder) has no encoding for a cursor object *)
Serializable(rws) ==
    \A i \in DOMAIN rws : \A j \in DOMAIN rws[i] : rws[i][j][2].kind # "cursor"

CursorObject == [kind |-> "cursor", s |-> "", d |-> <<>>, l |-> <<>>]

(* the test with a filter counted as given whenever the query key is there *)
UsesFindFilterKey(q) == "query" \in q.keys \/ ~Truthy(q.aggregate)

(* mongodb.py 293: if q or not aggregate *)
UsesFind(q) == Truthy(q.query) \/ ~Truthy(q.aggregate)

(* mongodb.py 314-339: from the cursor to the returned pair *)
MongoFinish(q, cursorRows, countValue) ==
    LET parsed == IF "count" \in q.keys
                  THEN [columns |-> <<Column("count", TYPE_INTEGER)>>,
                        rows |-> << << <<"count", countValue>> >> >>]
                  ELSE parse_results(cursorRows)
        cols == OrderColumns(parsed.columns, q)
    IN  IF Serializable(parsed.rows)
        THEN Return(Payload(cols, parsed.rows), None)
        ELSE Raise("TypeError")

(* mongodb.py 253-339; docs are the documents the filter matches, in sort order,
   or the output of the pipeline; driverResult is "list" for a driver whose
   aggregate answers a dict holding the result list and "cursor" for one that
   answers a CommandCursor; failing is a backend call that raises; for a
   number or null, "collection" not in query_data raises a TypeError *)
MongoResult(q, docs, driverResult, failing) ==
    IF q.text = "invalid"
    THEN [calls |-> <<>>,
          ret |-> Return(NullPayload, "Invalid query format. The query is not a valid JSON.")]
    ELSE IF q.text = "oids"
    THEN [calls |-> <<>>, ret |-> Raise("$oids takes an array as input.")]
    ELSE IF q.text = "scalar"
    THEN [calls |-> <<>>, ret |-> Raise("TypeError")]
    ELSE IF "collection" \notin q.keys
    THEN [calls |-> <<>>,
          ret |-> Return(NullPayload, "'collection' must have a value to run a query")]
    ELSE IF UsesFind(q)
    THEN [calls |-> IF "count" \in q.keys THEN <<"find", "count">> ELSE <<"find">>,
          ret |-> IF failing THEN Raise("OperationFailure")
                  ELSE MongoFinish(q, FindCursor(docs, q), Num(Len(docs)))]
    ELSE [calls |-> <<"aggregate">>,
          ret |-> IF failing THEN Raise("OperationFailure")
                  ELSE MongoFinish(q, docs,
                                   IF driverResult = "list"
                                   THEN List([i \in DOMAIN docs |-> Dict(docs[i])])
                                   ELSE CursorObject)]

MongoRunQuery ==
    /\ pc = "idle"
    /\ \E q \in MongoQueries, docs \in RecordSets,
          driverResult \in {"list", "cursor"}, failing \in BOOLEAN :
          LET out == MongoResult(q, docs, driverResult, failing)
          IN  /\ input' = q
              /\ query' = q
              /\ backend' = docs
              /\ requests' = out.calls
              /\ ret' = out.ret
    /\ runner' = "MongoDB"
    /\ pc' = "done"
    /\ UNCHANGED <<query_type, responses, results, index, field_mapping, parseVars, normVars, schemaVars>>

(* the caller takes the result; the runner is ready for the next query *)
Finish ==
    /\ pc = "done"
    /\ pc' = "idle"
    /\ runner' = NoValue
    /\ input' = NoRecord
    /\ query' = NoRecord
    /\ query_type' = NoValue
    /\ backend' = NoRecord
    /\ requests' = <<>>
    /\ responses' = <<>>
    /\ results' = EmptyResultSet
    /\ index' = 0
    /\ ret' = NoReturn
    /\ field_mapping' = <<>>
    /\ UNCHANGED <<parseVars, normVars, schemaVars>>

Init ==
    /\ RunAtRest
    /\ field_mapping = <<>>
    /\ ParseAtRest
    /\ NormAtRest
    /\ SchemaAtRest

Next ==
    \/ JiraRunQuery
    \/ JiraFirstPage
    \/ JiraNextPage
    \/ UptycsRunQuery
    \/ UrlRunQuery
    \/ MongoRunQuery
    \/ Finish

Spec == Init /\ [][Next]_vars

NextJira ==
    \/ JiraRunQuery
    \/ JiraFirstPage
    \/ JiraNextPage
    \/ Finish

SpecJira == Init /\ [][NextJira]_vars

NextMongo ==
    \/ MongoRunQuery
    \/ Finish

SpecMongo == Init /\ [][NextMongo]_vars

NextJiraFaulty ==
    \/ JiraRunQueryFaulty
    \/ JiraFirstPage
    \/ JiraNextPage
    \/ Finish

(* get_response blocks until the backend has answered: a backend that answers
   each request lets the call take its next step *)
SpecJiraFaulty ==
    Init /\ [][NextJiraFaulty]_vars /\ WF_vars(JiraFirstPage) /\ WF_vars(JiraNextPage)

(* ---------------------- mongodb.py: MongoDB.get_schema ----------------- *)

(* the documents of the collections, by their top-level property names in order *)
SchemaDocuments == {<<"_id", "a">>, <<"_id", "b", "a">>}

DocumentLists ==
    {<<>>} \cup {<<d>> : d \in SchemaDocuments}
           \cup {d \in [1..2 -> SchemaDocuments] : d[1] # d[2]}

(* a collection: its name, whether it is a view, its documents in natural
   order, and the backend call on it that raises: "options" (the view check),
   "first" (the first sampling find), "last" (the second one), or "none" *)
Collection(name, view, docs, failing) ==
    [name |-> name, view |-> view, docs |-> docs, failing |-> failing]

Collections ==
    {Collection(n, v, d, f) : n \in {"events", "users"}, v \in BOOLEAN,
                              d \in DocumentLists, f \in {"none", "options", "first", "last"}}
    \cup {Collection("system.indexes", FALSE, <<>>, f) : f \in {"none", "options"}}

(* db.collection_names(): collections of distinct names *)
Databases ==
    UNION {{d \in [1..n -> Collections] :
                \A i \in 1..n : \A j \in 1..n : i # j => d[i].name # d[j].name} :
           n \in 0..MaxCollections}

(* mongodb.py 243: collection_name.startswith("system.") *)
StartsWithSystem(name) == name \in {"system.indexes"}

(* mongodb.py 192-195 *)
RECURSIVE _merge_property_names(_, _)
_merge_property_names(cols, document) ==
    IF document = <<>> THEN cols
    ELSE _merge_property_names(IF Head(document) \in Range(cols) THEN cols
                               ELSE Append(cols, Head(document)),
                               Tail(document))

(* mongodb.py 235-236 *)
RECURSIVE MergeSample(_, _)
MergeSample(cols, sample) ==
    IF sample = <<>> THEN cols
    ELSE MergeSample(_merge_property_names(cols, Head(sample)), Tail(sample))

(* mongodb.py 213-228: find().limit(2) of a view, else the first and the last
   document in natural order *)
DocumentsSample(c) ==
    IF c.view THEN SubSeq(c.docs, 1, Min(2, Len(c.docs)))
    ELSE IF c.docs = <<>> THEN <<>>
    ELSE <<c.docs[1], c.docs[Len(c.docs)]>>

(* mongodb.py 197-198, called at 210 before the try *)
_is_collection_a_view(c) ==
    IF c.failing = "options" THEN [raised |-> "OperationFailure", view |-> FALSE]
    ELSE [raised |-> NoValue, view |-> c.view]

(* mongodb.py 200-237: the calls made, the exception that leaves the method if
   any, and the columns returned *)
_get_collection_fields(c) ==
    IF _is_collection_a_view(c).raised # NoValue
    THEN [calls |-> <<"options">>, raised |-> _is_collection_a_view(c).raised,
          columns |-> <<>>]
    ELSE IF c.failing = "first"
    THEN [calls |-> <<"options", "find">>, raised |-> NoValue, columns |-> <<>>]
    ELSE IF c.failing = "last" /\ ~c.view
    THEN [calls |-> <<"options", "find", "find">>, raised |-> NoValue, columns |-> <<>>]
    ELSE [calls |-> IF c.view THEN <<"options", "find">> ELSE <<"options", "find", "find">>,
          raised |-> NoValue,
          columns |-> MergeSample(<<>>, DocumentsSample(c))]

(* sorted(columns) *)
RECURSIVE SortedNames(_)
SortedNames(names) ==
    IF names = <<>> THEN <<>>
    ELSE LET rest == SortedNames(SubSeq(names, 1, Len(names) - 1))
             last == names[Len(names)]
             before(n) == Rank(n) <= Rank(last)
             after(n) == Rank(n) > Rank(last)
         IN  SelectSeq(rest, before) \o <<last>> \o SelectSeq(rest, after)

InitSchema ==
    /\ db \in Databases
    /\ schema = <<>>
    /\ collIdx = 1
    /\ schemaCalls = <<>>
    /\ schemaRaised = NoValue
    /\ field_mapping = <<>>
    /\ ParseAtRest
    /\ NormAtRest
    /\ RunAtRest

(* mongodb.py 242-249: one iteration of the loop over the collection names *)
GetSchemaCollection ==
    /\ schemaRaised = NoValue
    /\ collIdx \in DOMAIN db
    /\ LET c == db[collIdx]
           out == _get_collection_fields(c)
           made == [i \in DOMAIN out.calls |-> [collection |-> c.name, call |-> out.calls[i]]]
       IN  IF StartsWithSystem(c.name)
           THEN /\ collIdx' = collIdx + 1
                /\ UNCHANGED <<schema, schemaCalls, schemaRaised>>
           ELSE /\ schemaCalls' = schemaCalls \o made
                /\ IF out.raised # NoValue
                   THEN /\ schemaRaised' = out.raised
                        /\ UNCHANGED <<schema, collIdx>>
                   ELSE /\ schema' = IF out.columns # <<>>
                                     THEN Append(schema, [name |-> c.name,
                                                          columns |-> SortedNames(out.columns)])
                                     ELSE schema
                        /\ collIdx' = collIdx + 1
                        /\ schemaRaised' = schemaRaised
    /\ UNCHANGED <<db, field_mapping, parseVars, normVars, runVars>>

NextSchema == GetSchemaCollection

SpecSchema == InitSchema /\ [][NextSchema]_vars

(* ======================== claims on run_query ========================== *)

returnedOk == pc = "done" /\ ret.kind = "return" /\ ret.error = None

(* C1: every run_query call of every query runner returns a pair (payload,
   error) in which exactly one of the two is null. *)
C1_ExactlyOneNull ==
    (pc = "done" /\ ret.kind = "return") => (ret.payload.null <=> ret.error # None)

Max(a, b) == IF a >= b THEN a ELSE b

CeilDiv(a, b) == (a + b - 1) \div b

(* the page size the backend serves this call with, and the issues it holds *)
servedPage == Min(query.maxResults, backend.cap)

heldTotal == Len(backend.issues)

(* the startAt of the caller's own query, 0 when it carries none *)
callerStartAt == IF "startAt" \in input.keys THEN input.startAt ELSE 0

rowKeys == [i \in DOMAIN ret.payload.rows |-> DictGet(ret.payload.rows[i], "key").s]

jiraSelectOk == runner = "JiraJQL" /\ returnedOk /\ query_type = "select"

(* C2 (as claimed): a select query against a backend holding T issues and
   serving pages of size P issues exactly max(1, ceil(T/P)) requests, and the
   merged result has exactly the T issues as rows, none lost or duplicated. *)
C2_AllIssuesInCeilRequests ==
    jiraSelectOk =>
        /\ Len(requests) = Max(1, CeilDiv(heldTotal, servedPage))
        /\ rowKeys = [i \in 1..heldTotal |-> IssueKey(i)]

(* C2 (amended): with s the startAt of the caller's own query (0 when it carries
   none), the call issues exactly max(1, ceil(max(0, T - s) / P)) requests and
   the merged result has exactly the issues s+1..T as rows, in order, none lost
   or duplicated; for s = 0 that is max(1, ceil(T/P)) requests and T rows. *)
C2_IssuesFromStartAt ==
    jiraSelectOk =>
        /\ Len(requests) = Max(1, CeilDiv(Max(0, heldTotal - callerStartAt), servedPage))
        /\ rowKeys = [i \in 1..Max(0, heldTotal - callerStartAt) |-> IssueKey(callerStartAt + i)]

C2_Witness ==
    /\ jiraSelectOk
    /\ "startAt" \notin input.keys
    /\ heldTotal = 5
    /\ servedPage = 2
    /\ Len(requests) = 3
    /\ Len(ret.payload.rows) = 5

(* C3: when a backend request of JiraJQL.run_query is answered by an error, no
   further request is issued after it and the call has returned a null payload
   with that single error, whatever was merged before. *)
C3_ErrorAborts ==
    runner = "JiraJQL" =>
        \A i \in DOMAIN responses :
            responses[i].error # None =>
                /\ i = Len(responses)
                /\ Len(requests) = i
                /\ pc = "done"
                /\ ret = Return(NullPayload, responses[i].error)

C3_Witness ==
    /\ runner = "JiraJQL"
    /\ pc = "done"
    /\ Len(responses) = 3
    /\ responses[3].error = "Connection refused"
    /\ Len(results.rows) = 2
    /\ ret.payload.null
    /\ ret.error = "Connection refused"

(* C4: the columns of the running ResultSet are the union of the columns of the
   pages merged so far: every key of every row of the merged result is the name
   of one of its columns. *)
C4_MergedColumnsCoverRows ==
    runner = "JiraJQL" =>
        \A i \in DOMAIN results.rows : DictKeys(results.rows[i]) \subseteq ColumnNames(results.columns)

isCountQuery ==
    \/ runner = "JiraJQL" /\ query_type = "count"
    \/ runner = "MongoDB" /\ "count" \in query.keys

(* C5: a count-only query returns exactly one row and exactly one column, named
   count and of type integer, and the row's count is the integer count. *)
C5_CountOnly ==
    (returnedOk /\ isCountQuery) =>
        /\ Len(ret.payload.columns) = 1
        /\ ret.payload.columns[1].name = "count"
        /\ ret.payload.columns[1].type = TYPE_INTEGER
        /\ Len(ret.payload.rows) = 1
        /\ DictKeys(ret.payload.rows[1]) = {"count"}
        /\ DictGet(ret.payload.rows[1], "count").kind = "int"

(* C7: the columns MongoDB.run_query returns are a permutation of the columns
   normalization produced, which are the keys of the rows: no column is added
   or removed by the ordering, and every key of every output row is the name of
   an output column. *)
C7_OrderingIsPermutation ==
    (runner = "MongoDB" /\ returnedOk) =>
        /\ ColumnNames(ret.payload.columns)
             = UNION {DictKeys(ret.payload.rows[i]) : i \in DOMAIN ret.payload.rows}
        /\ Cardinality(ColumnNames(ret.payload.columns)) = Len(ret.payload.columns)

(* ======================= claims on parse_issue ========================= *)

stepping == fieldIdx <= Len(issue.fields)

curK == issue.fields[fieldIdx][1]

curV == issue.fields[fieldIdx][2]

returned == fieldIdx = Len(issue.fields) + 1

First(S) == CHOOSE j \in S : \A h \in S : j <= h

(* the member names the mapping declares for field k *)
Declared(k) ==
    {field_mapping[i].member_name :
        i \in {j \in DOMAIN field_mapping :
                  field_mapping[j].field_name = k /\ field_mapping[j].member_name # None}}

(* the output name of the first rule for member m of field k *)
MemberOut(k, m) ==
    field_mapping[First({i \in DOMAIN field_mapping :
                            field_mapping[i].field_name = k
                            /\ field_mapping[i].member_name = m})].output_field_name

(* the mapped output name of field k, or k itself without a rename rule *)
OutName(k) ==
    LET renames == {i \in DOMAIN field_mapping :
                       field_mapping[i].field_name = k /\ field_mapping[i].member_name = None}
    IN  IF renames = {} THEN k ELSE field_mapping[First(renames)].output_field_name

(* result' keeps every column of result outside S, value and all, and adds none outside S *)
OnlyWrites(S) ==
    /\ DictKeys(result') \ S = DictKeys(result) \ S
    /\ DictKeys(result) \subseteq DictKeys(result')
    /\ \A c \in DictKeys(result) \ S : DictGet(result', c) = DictGet(result, c)

(* C8: while parse_issue handles a nested-object field that has declared member
   rules, it writes one renamed column per declared member present on the
   record, holding that member's value, and writes no other column: none of the
   legacy columns <name>_key, <name>_name, <name> is produced for the field. *)
C8_ExplicitMembersOnly ==
    [][(stepping /\ curV.kind = "dict" /\ Declared(curK) # {}) =>
        LET present == {m \in Declared(curK) : DictHas(curV.d, m)}
            outs == {MemberOut(curK, m) : m \in present}
        IN  /\ \A m \in present :
                /\ DictHas(result', MemberOut(curK, m))
                /\ \E m2 \in present :
                      /\ MemberOut(curK, m2) = MemberOut(curK, m)
                      /\ DictGet(result', MemberOut(curK, m)) = DictGet(curV.d, m2)
            /\ OnlyWrites(outs)]_vars

C8_Witness ==
    /\ returned
    /\ issue.fields = << <<"assignee", Dict(<< <<"key", Str("bob1")>>, <<"name", Str("Bob")>> >>)>> >>
    /\ field_mapping = FieldMapping(<< <<Dot("assignee", "name"), "assignee_name">> >>)
    /\ result = << <<"key", Str("K1")>>, <<"assignee_name", Str("Bob")>> >>

(* C9: while parse_issue handles a nested-object field with no declared member
   rule, it writes <name>_key iff the object has a key member, <name>_name iff
   it has a name member, and <name> iff it has a member named like the field or
   a watchCount member, with the watchCount value when both exist; <name> is
   the mapped output name, or the field name without a rename rule. *)
C9_LegacyFallback ==
    [][(stepping /\ curV.kind = "dict" /\ Declared(curK) = {}) =>
        LET nm == OutName(curK)
            d == curV.d
            written == (IF DictHas(d, "key") THEN {nm \o "_key"} ELSE {})
                       \cup (IF DictHas(d, "name") THEN {nm \o "_name"} ELSE {})
                       \cup (IF DictHas(d, curK) \/ DictHas(d, "watchCount") THEN {nm} ELSE {})
        IN  /\ OnlyWrites(written)
            /\ written \subseteq DictKeys(result')
            /\ DictHas(d, "key") => DictGet(result', nm \o "_key") = DictGet(d, "key")
            /\ DictHas(d, "name") => DictGet(result', nm \o "_name") = DictGet(d, "name")
            /\ DictHas(d, "watchCount") => DictGet(result', nm) = DictGet(d, "watchCount")
            /\ (DictHas(d, curK) /\ ~DictHas(d, "watchCount")) =>
                    DictGet(result', nm) = DictGet(d, curK)]_vars

C9_Witness ==
    /\ returned
    /\ issue.fields = << <<"assignee", Dict(<< <<"key", Str("bob1")>>, <<"assignee", Str("self")>>,
                                               <<"watchCount", Str("5")>> >>)>> >>
    /\ field_mapping = FieldMapping(<< <<(<<"assignee">>), "owner">> >>)
    /\ result = << <<"key", Str("K1")>>, <<"owner_key", Str("bob1")>>, <<"owner", Str("5")>> >>

(* the values of member m over the entries of list l that are mappings carrying m *)
ValuesOfMember(l, m) ==
    LET carries(e) == e.kind = "dict" /\ m \in DictKeys(e.d)
        es == SelectSeq(l, carries)
    IN  [i \in DOMAIN es |-> DictGet(es[i].d, m).s]

(* the entries of list l that are not mappings *)
ScalarsOf(l) ==
    LET scalar(e) == e.kind # "dict"
        es == SelectSeq(l, scalar)
    IN  [i \in DOMAIN es |-> es[i].s]

(* C10 (as claimed): for a list-valued field with declared member rules, each
   declared member yields one column holding the comma-joined values of that
   member over the list entries that are mappings. *)
C10_EveryDeclaredMemberYieldsColumn ==
    [][(stepping /\ curV.kind = "list" /\ Declared(curK) # {}) =>
        \A m \in Declared(curK) :
            /\ DictHas(result', MemberOut(curK, m))
            /\ DictGet(result', MemberOut(curK, m)) = Str(Join(ValuesOfMember(curV.l, m)))]_vars

(* C10 (amended): for a list-valued field with declared member rules, each
   declared member carried by at least one mapping entry yields one column, the
   comma-joined values of that member over the mapping entries carrying it, and
   a declared member no entry carries yields no column; with no declared rule
   the non-mapping entries are comma-joined into the single column <name>, and
   a list with no non-mapping entry yields no column. *)
C10_ListColumns ==
    [][(stepping /\ curV.kind = "list") =>
        IF Declared(curK) # {}
        THEN LET carried == {m \in Declared(curK) : Len(ValuesOfMember(curV.l, m)) > 0}
             IN  /\ OnlyWrites({MemberOut(curK, m) : m \in carried})
                 /\ \A m \in carried :
                        /\ DictHas(result', MemberOut(curK, m))
                        /\ DictGet(result', MemberOut(curK, m))
                             = Str(Join(ValuesOfMember(curV.l, m)))
        ELSE IF Len(ScalarsOf(curV.l)) > 0
             THEN /\ OnlyWrites({OutName(curK)})
                  /\ DictHas(result', OutName(curK))
                  /\ DictGet(result', OutName(curK)) = Str(Join(ScalarsOf(curV.l)))
             ELSE result' = result]_vars

C10_Witness ==
    /\ returned
    /\ issue.fields = << <<"labels", List(<< Dict(<< <<"name", Str("n1")>> >>),
                                             Dict(<< <<"name", Str("n2")>>, <<"key", Str("k2")>> >>) >>)>> >>
    /\ field_mapping = FieldMapping(<< <<Dot("labels", "name"), "ln">>, <<Dot("labels", "key"), "lk">> >>)
    /\ result = << <<"key", Str("K1")>>, <<"ln", Str("n1,n2")>>, <<"lk", Str("k2")>> >>

(* ====================== claims on parse_results ======================== *)

(* the flattened column names of record r *)
FlatKeys(r) ==
    {r[i][1] : i \in {j \in DOMAIN r : r[j][2].kind # "dict"}}
    \cup UNION {{r[i][1] \o "." \o r[i][2].d[n][1] : n \in DOMAIN r[i][2].d} :
                    i \in {j \in DOMAIN r : r[j][2].kind = "dict"}}

(* row holds exactly the flattened keys of record r, each with its value *)
RowOfRecord(row, r) ==
    /\ DictKeys(row) = FlatKeys(r)
    /\ \A i \in DOMAIN r :
          IF r[i][2].kind = "dict"
          THEN \A n \in DOMAIN r[i][2].d :
                  DictGet(row, r[i][1] \o "." \o r[i][2].d[n][1]) = r[i][2].d[n][2]
          ELSE DictGet(row, r[i][1]) = r[i][2]

(* where a column name is first seen: <<row, position in that row>> *)
FirstRowOf(name) == First({i \in DOMAIN rows : name \in DictKeys(rows[i])})

PositionIn(row, name) == CHOOSE i \in DOMAIN row : row[i][1] = name

SeenBefore(n1, n2) ==
    \/ FirstRowOf(n1) < FirstRowOf(n2)
    \/ /\ FirstRowOf(n1) = FirstRowOf(n2)
       /\ PositionIn(rows[FirstRowOf(n1)], n1) < PositionIn(rows[FirstRowOf(n1)], n2)

(* C6: parse_results gives every scalar top-level field a column of its name and
   every one-level-nested mapping field one column <outer>.<inner> per inner key
   present; the columns are the union over all rows, in first-seen order, with
   unique names; each output row holds exactly the flattened keys of its own
   record with their values. *)
C6_Flattening ==
    /\ Len(rows) = (IF rowIdx = 0 THEN 0 ELSE rowIdx - 1)
    /\ \A i \in DOMAIN rows : RowOfRecord(rows[i], records[i])
    /\ ColumnNames(columns) = UNION {FlatKeys(records[i]) : i \in DOMAIN rows}
    /\ Cardinality(ColumnNames(columns)) = Len(columns)
    /\ \A i, j \in DOMAIN columns : i < j => SeenBefore(columns[i].name, columns[j].name)
    /\ \A i \in DOMAIN columns : columns[i].friendly_name = columns[i].name

C6_Witness ==
    /\ rowIdx = 3
    /\ records = << << <<"a", Num(1)>> >>,
                    << <<"a", Num(2)>>, <<"b", Dict(<< <<"c", Num(3)>> >>)>> >> >>
    /\ [i \in DOMAIN columns |-> columns[i].name] = <<"a", "b.c">>
    /\ rows = << << <<"a", Num(1)>> >>, << <<"a", Num(2)>>, <<"b.c", Num(3)>> >> >>

(* =================== claims on MongoDB.run_query ======================= *)

mongoDone == runner = "MongoDB" /\ pc = "done"

(* a pipeline is there and is not empty; a filter is there and is not empty *)
hasPipeline == "aggregate" \in input.keys /\ input.aggregate # <<>>

hasFilter == "query" \in input.keys /\ input.query # <<>>

Calls(name) == {i \in DOMAIN requests : requests[i] = name}

(* C11: an execution that reaches the backend uses exactly one selection
   strategy: aggregate is invoked if and only if a non-empty aggregate is
   there and no filter is given (an absent or empty query document selects
   nothing), find is invoked in every other case, each at most once, and
   never both in one execution. *)
C11_OneStrategy ==
    (mongoDone /\ requests # <<>>) =>
        /\ (Calls("aggregate") # {}) <=> (hasPipeline /\ ~hasFilter)
        /\ (Calls("find") # {}) <=> ~(hasPipeline /\ ~hasFilter)
        /\ Cardinality(Calls("aggregate")) + Cardinality(Calls("find")) = 1

(* a pipeline run although the query carries a filter key, the filter being empty *)
C11_Witness ==
    /\ mongoDone
    /\ requests = <<"aggregate">>
    /\ "query" \in input.keys
    /\ returnedOk

noBackendCall == requests = <<>>

(* C12: on text that is not valid JSON run_query returns a null payload with
   the invalid-query-format error, and on valid JSON without a collection key
   a null payload with the missing-collection error; in both cases no find,
   aggregate or count is issued. *)
C12_MalformedInputReturnsError ==
    mongoDone =>
        /\ input.text = "invalid" =>
              /\ ret = Return(NullPayload, "Invalid query format. The query is not a valid JSON.")
              /\ noBackendCall
        /\ (input.text # "invalid" /\ "collection" \notin input.keys) =>
              /\ ret = Return(NullPayload, "'collection' must have a value to run a query")
              /\ noBackendCall

(* C13: a query whose $oids marker wraps a non-array fails with an error
   returned through the result protocol (null payload, non-null error), and no
   find or aggregate is issued. *)
C13_OidsErrorReturned ==
    (mongoDone /\ input.text = "oids") =>
        /\ ret.kind = "return"
        /\ ret.payload.null
        /\ ret.error # None
        /\ noBackendCall

(* ==================== claims on MongoDB.get_schema ===================== *)

(* get_schema is over: it returned list(schema.values()) or an exception left it *)
schemaReturned == schemaRaised = NoValue /\ collIdx = Len(db) + 1

schemaOver == schemaReturned \/ schemaRaised # NoValue

(* a backend call made while sampling collection c fails *)
SamplingFails(c) ==
    \/ c.failing \in {"options", "first"}
    \/ c.failing = "last" /\ ~c.view

Introspected(c) == \E i \in DOMAIN schemaCalls : schemaCalls[i].collection = c.name

SchemaEntries(name) == {i \in DOMAIN schema : schema[i].name = name}

(* C14: a failure of any backend call made while sampling one collection (the
   view check or either sampling find) yields an empty field list for that
   collection and never aborts introspection: get_schema returns normally,
   every non-reserved collection is introspected, and the collections whose
   sampling did not fail are listed with their sorted sampled fields. *)
C14_SamplingFailureIsolated ==
    schemaOver =>
        /\ schemaReturned
        /\ \A i \in DOMAIN db :
              LET c == db[i]
              IN  ~StartsWithSystem(c.name) =>
                    /\ Introspected(c)
                    /\ SamplingFails(c) => SchemaEntries(c.name) = {}
                    /\ (~SamplingFails(c) /\ c.docs # <<>>) =>
                          \E e \in SchemaEntries(c.name) :
                              schema[e].columns
                                  = SortedNames(MergeSample(<<>>, DocumentsSample(c)))

(* ==================== claims on JiraJQL.run_query ====================== *)

jiraRunning == runner = "JiraJQL" /\ pc \in {"waiting", "done"}

(* C15: a count query forces maxResults = 1 and an empty fields parameter on
   the request it sends, whatever the caller supplied, and issues exactly one
   request, even when the reported total exceeds 1. *)
C15_CountSingleRequest ==
    (jiraRunning /\ query_type = "count") =>
        /\ Len(requests) = 1
        /\ {"maxResults", "fields"} \subseteq requests[1].keys
        /\ requests[1].maxResults = 1
        /\ requests[1].fields = ""

C15_Witness ==
    /\ runner = "JiraJQL" /\ returnedOk /\ query_type = "count"
    /\ {"maxResults", "fields"} \subseteq input.keys
    /\ input.maxResults = 2
    /\ responses[1].total = 3
    /\ ret.payload.rows = << << <<"count", Num(3)>> >> >>

ControlKeys == {"queryType", "fieldMapping"}

(* key k of the caller's query is in request req with the caller's value *)
ForwardedUnchanged(req, k) == k \in req.keys /\ req[k] = input[k]

(* the caller's keys that a request has to carry unchanged, but for the set
   of excepted ones *)
ForwardsAllBut(req, excepted) ==
    /\ req.keys \cap ControlKeys = {}
    /\ \A k \in input.keys \ (ControlKeys \cup excepted) : ForwardedUnchanged(req, k)
    /\ ("maxResults" \in input.keys /\ query_type # "count")
          => ForwardedUnchanged(req, "maxResults")

(* C16 (as claimed): no forwarded request, first page or follow-up, carries
   queryType or fieldMapping, and every other key of the caller's query is
   forwarded unchanged on every page, except startAt and maxResults when
   defaulted or forced. *)
C16_OnlyControlKeysStripped ==
    jiraRunning =>
        \A i \in DOMAIN requests : ForwardsAllBut(requests[i], {"startAt", "maxResults"})

(* C16 (amended): no forwarded request carries queryType or fieldMapping, and
   every other key of the caller's query is forwarded unchanged on every page,
   except startAt, maxResults when defaulted or forced, and fields when the
   query is a count query, which forces it to the empty string. *)
C16_ControlKeysStripped ==
    jiraRunning =>
        \A i \in DOMAIN requests :
            ForwardsAllBut(requests[i],
                           IF query_type = "count" THEN {"startAt", "maxResults", "fields"}
                           ELSE {"startAt", "maxResults"})

C16_Witness ==
    /\ runner = "JiraJQL" /\ returnedOk
    /\ input.keys = {"jql", "queryType", "fieldMapping", "fields", "maxResults"}
    /\ input.queryType = "select"
    /\ Len(requests) = 3
    /\ requests[3].keys = {"jql", "fields", "maxResults", "startAt"}

(* C17: pagination is strictly sequential: at most one request is outstanding,
   request n+1 is issued only after the response to request n was received,
   its startAt equals startAt + maxResults as that response reports them, and
   it is issued only while that offset is strictly less than the total that
   response reports. *)
C17_Sequential ==
    jiraRunning =>
        /\ Len(responses) <= Len(requests)
        /\ Len(requests) <= Len(responses) + 1
        /\ Len(requests) < MaxLog =>
              (Len(requests) = Len(responses) + 1 <=> pc = "waiting")
        /\ \A n \in 1..(Len(requests) - 1) :
              /\ responses[n].error = None
              /\ "startAt" \in requests[n + 1].keys
              /\ requests[n + 1].startAt = responses[n].startAt + responses[n].maxResults
              /\ requests[n + 1].startAt < responses[n].total

(* three pages of a backend that serves less than the query asks for and whose
   total grows between the pages *)
C17_Witness ==
    /\ runner = "JiraJQL" /\ returnedOk
    /\ backend.fault = "growing"
    /\ "startAt" \in input.keys /\ input.startAt = 1
    /\ requests[1].maxResults = 2
    /\ Len(requests) = 3
    /\ responses[1].maxResults = 1 /\ responses[1].total = 3
    /\ responses[2].total = 4
    /\ requests[3].startAt = 3

(* C18: run_query eventually returns for every backend that answers each
   request, whatever the responses report: maxResults = 0, a startAt that does
   not advance, or a total that grows between pages. *)
C18_EventuallyReturns == (runner = "JiraJQL" /\ pc = "waiting") ~> (pc = "done")

====
